---- MODULE Spec2Model ----
(***************************************************************************)
(* A model of software/watchdog.py: the supervisor (the __main__ block),   *)
(* the capture thread (video_processing) and the callers of                *)
(* generate_image that the web interface serves, sharing the module-level  *)
(* lock and output_frame.                                                  *)
(*                                                                         *)
(* NumPy arrays are heap objects: heap[id] is the content of array id and  *)
(* frame, output_frame and image_object hold ids (references); 0 is None.  *)
(* A frame's content is a pair of halves, both tagged with the frame's     *)
(* sequence number, so that a mix of two frames or a half-written frame is *)
(* a content that no capture produced.                                     *)
(***************************************************************************)
EXTENDS Naturals, Sequences, FiniteSets

\* Bounds of the model.
MaxFrames == 2
NumCallers == 2

\* output_frame = None
None == 0

Callers == 1 .. NumCallers

VARIABLES
    pc_main,        \* position of the __main__ block
    pc_video,       \* position of video_processing in its thread
    pc_call,        \* position of each caller in generate_image
    lock,           \* TRUE iff the lock is locked
    output_frame,   \* global output_frame: None or a reference
    heap,           \* the arrays allocated so far: id -> content
    frame,          \* video_processing's local frame
    copied,         \* the value of frame.copy() before it is assigned
    image_object,   \* generate_image's local image_object, per caller
    returned,       \* the callers to which at least one call has returned
    launched,       \* TRUE once app.queue().launch() serves requests
    camera,         \* "closed", "started" or "stopped"
    camera_stops,   \* number of camera.stop() invocations
    captured,       \* number of frames the camera has delivered
    signal,         \* the interrupt signal: "none", "pending", "raised"
    process,        \* "running" or "exited"
    published,      \* history: contents of the captured frames published, in order
    sigint_in_loop, \* history: the signal arrived while the capture loop was running
    unread,         \* history: publishes since the last read of the slot
    read_pubs,      \* history: per caller, publishes completed when its call read the slot
    read_skipped    \* history: per caller, the value of unread when its call read the slot

vars == << pc_main, pc_video, pc_call, lock, output_frame, heap, frame, copied,
           image_object, returned, launched, camera, camera_stops,
           captured, signal, process, published, sigint_in_loop,
           unread, read_pubs, read_skipped >>

\* The history of the reads.
read_hist == << unread, read_pubs, read_skipped >>

\* ---------------------------------------------------------------- helpers

\* The content of the n-th frame the camera delivers.
CapturedFrame(n) == << n, n >>

\* A mutation of ndarray.copy(): only the first half is copied.
CopyFirstHalfOnly(a) == [i \in DOMAIN a |-> IF i = 1 THEN a[i] ELSE 0]

\* ndarray.copy(): a new array with every element of a.
Copy(a) == [i \in DOMAIN a |-> a[i]]

\* A mutation of Lock.acquire(): it does not wait for the lock to be free.
CanAcquireAlways(l) == TRUE

\* Lock.acquire() (entering `with lock:`) proceeds only when the lock is unlocked.
CanAcquire(l) == ~l

\* image_object = None
NoImage == [image |-> FALSE, value |-> None]

\* gr.Image(value=v, ...): an image object that refers to the array v.
GrImage(v) == [image |-> TRUE, value |-> v]

\* The positions of video_processing inside `while (1):`.
LoopPcs == {"capture", "transform", "lockwait", "copy", "store", "release"}

\* The positions of video_processing inside the `try:` block.
InTry == pc_video \in LoopPcs

\* The positions of video_processing inside `with lock:`.
VideoInWith == pc_video \in {"copy", "store", "release"}

\* The positions of generate_image inside `with lock:`.
CallInWith(c) == pc_call[c] \in {"test", "image", "release"}

\* A mutation of the liveness check: it asks whether the thread was started.
IsAliveIfStarted == pc_video # "notstarted"

\* Thread.is_alive(): started and run() not yet terminated.
IsAlive == pc_video \in LoopPcs \cup {"open"}

\* The thread in which Python raises KeyboardInterrupt: signal handlers run in
\* the main thread only, and video_processing runs in a threading.Thread.
SignalThread == "main"

\* The supervisor's state, from the position of the __main__ block.
Supervisor ==
    CASE pc_main = "start" -> "NotStarted"
      [] pc_main \in {"sleep", "check"} -> "Launching"
      [] pc_main \in {"api", "serving"} -> "Ready"
      [] OTHER -> "Failed"

Running == process = "running"

\* ------------------------------------------------------------------- Init

Init ==
    /\ pc_main = "start"
    /\ pc_video = "notstarted"
    /\ pc_call = [c \in Callers |-> "idle"]
    /\ lock = FALSE
    /\ output_frame = None
    /\ heap = << >>
    /\ frame = None
    /\ copied = None
    /\ image_object = [c \in Callers |-> NoImage]
    /\ returned = {}
    /\ launched = FALSE
    /\ camera = "closed"
    /\ camera_stops = 0
    /\ captured = 0
    /\ signal = "none"
    /\ process = "running"
    /\ published = << >>
    /\ sigint_in_loop = FALSE
    /\ unread = 0
    /\ read_pubs = [c \in Callers |-> 0]
    /\ read_skipped = [c \in Callers |-> 0]

\* ----------------------------------------------------- the __main__ block

\* video_thread = threading.Thread(...); video_thread.start()
MainStartThread ==
    /\ Running
    /\ pc_main = "start"
    /\ pc_main' = "sleep"
    /\ pc_video' = "open"
    /\ UNCHANGED << pc_call, lock, output_frame, heap, frame, copied, image_object,
                    returned, launched, camera, camera_stops, captured, signal,
                    process, published, sigint_in_loop,
                    read_hist >>

\* sleep(1) returns
MainSleep ==
    /\ Running
    /\ pc_main = "sleep"
    /\ pc_main' = "check"
    /\ UNCHANGED << pc_video, pc_call, lock, output_frame, heap, frame, copied,
                    image_object, returned, launched, camera, camera_stops,
                    captured, signal, process, published, sigint_in_loop,
                    read_hist >>

\* A mutation of the check: the web interface is launched in the else branch too.
MainCheckAliveLaunchesAnyway ==
    /\ Running
    /\ pc_main = "check"
    /\ IF IsAlive
          THEN pc_main' = "api" /\ launched' = launched
          ELSE pc_main' = "failed" /\ launched' = TRUE
    /\ UNCHANGED << pc_video, pc_call, lock, output_frame, heap, frame, copied,
                    image_object, returned, camera, camera_stops,
                    captured, signal, process, published, sigint_in_loop,
                    read_hist >>

\* if video_thread.is_alive(): ... else: ...
MainCheckAlive ==
    /\ Running
    /\ pc_main = "check"
    /\ pc_main' = IF IsAlive THEN "api" ELSE "failed"
    /\ UNCHANGED << pc_video, pc_call, lock, output_frame, heap, frame, copied,
                    image_object, returned, launched, camera, camera_stops,
                    captured, signal, process, published, sigint_in_loop,
                    read_hist >>

\* app = gr.Interface(fn=generate_image, ...); app.queue().launch(...)
MainLaunch ==
    /\ Running
    /\ pc_main = "api"
    /\ pc_main' = "serving"
    /\ launched' = TRUE
    /\ UNCHANGED << pc_video, pc_call, lock, output_frame, heap, frame, copied,
                    image_object, returned, camera, camera_stops,
                    captured, signal, process, published, sigint_in_loop,
                    read_hist >>

\* print("Unable to do video processing!") and the end of the script: the
\* main thread ends, the interpreter exits.
MainExit ==
    /\ Running
    /\ pc_main = "failed"
    /\ process' = "exited"
    /\ UNCHANGED << pc_main, pc_video, pc_call, lock, output_frame, heap, frame,
                    copied, image_object, returned, launched, camera,
                    camera_stops, captured, signal, published, sigint_in_loop,
                    read_hist >>

\* ------------------------------------------------------- video_processing

\* The effect of exception e raised inside the `try:` block: `with lock:`
\* releases the lock on the way out; `except KeyboardInterrupt` stops the
\* camera and re-raises; any other exception is not caught. Either way the
\* exception leaves video_processing and the thread terminates.
VideoExcept(e) ==
    /\ lock' = IF VideoInWith THEN FALSE ELSE lock
    /\ IF e = "KeyboardInterrupt"
          THEN /\ camera' = "stopped"
               /\ camera_stops' = camera_stops + 1
               /\ pc_video' = "interrupted"
          ELSE /\ pc_video' = "crashed"
               /\ UNCHANGED << camera, camera_stops >>

\* Picamera2(), create_video_configuration, align_configuration, configure,
\* start, createBackgroundSubtractorMOG2 succeed.
VideoOpen ==
    /\ Running
    /\ pc_video = "open"
    /\ pc_video' = "capture"
    /\ camera' = "started"
    /\ UNCHANGED << pc_main, pc_call, lock, output_frame, heap, frame, copied,
                    image_object, returned, launched, camera_stops,
                    captured, signal, process, published, sigint_in_loop,
                    read_hist >>

\* Opening, configuring or starting the camera raises: this is outside the
\* `try:` block, so the thread terminates with the exception.
VideoOpenFail ==
    /\ Running
    /\ pc_video = "open"
    /\ pc_video' = "open_failed"
    /\ UNCHANGED << pc_main, pc_call, lock, output_frame, heap, frame, copied,
                    image_object, returned, launched, camera, camera_stops,
                    captured, signal, process, published, sigint_in_loop,
                    read_hist >>

\* A mutation of video_processing: the failure of the open is swallowed and
\* the loop starts all the same.
VideoCaptureAfterFailedOpen ==
    /\ Running
    /\ pc_video \in {"capture", "open_failed"}
    /\ captured < MaxFrames
    /\ captured' = captured + 1
    /\ heap' = Append(heap, CapturedFrame(captured + 1))
    /\ frame' = Len(heap) + 1
    /\ pc_video' = "transform"
    /\ UNCHANGED << pc_main, pc_call, lock, output_frame, copied, image_object,
                    returned, launched, camera, camera_stops, signal,
                    process, published, sigint_in_loop,
                    read_hist >>

\* frame = camera.capture_array(): a new array holding the next frame.
VideoCapture ==
    /\ Running
    /\ pc_video = "capture"
    /\ captured < MaxFrames
    /\ captured' = captured + 1
    /\ heap' = Append(heap, CapturedFrame(captured + 1))
    /\ frame' = Len(heap) + 1
    /\ pc_video' = "transform"
    /\ UNCHANGED << pc_main, pc_call, lock, output_frame, copied, image_object,
                    returned, launched, camera, camera_stops, signal,
                    process, published, sigint_in_loop,
                    read_hist >>

\* A mutation of the capture failure: the slot is emptied on the way out.
VideoCaptureFailClearsSlot ==
    /\ Running
    /\ pc_video = "capture"
    /\ VideoExcept("CaptureError")
    /\ output_frame' = None
    /\ UNCHANGED << pc_main, pc_call, heap, frame, copied,
                    image_object, returned, launched, captured, signal,
                    process, published, sigint_in_loop,
                    read_hist >>

\* camera.capture_array() raises.
VideoCaptureFail ==
    /\ Running
    /\ pc_video = "capture"
    /\ VideoExcept("CaptureError")
    /\ UNCHANGED << pc_main, pc_call, output_frame, heap, frame, copied,
                    image_object, returned, launched, captured, signal,
                    process, published, sigint_in_loop,
                    read_hist >>

\* mask = background_subtract.apply(frame): the mask is not used.
VideoTransform ==
    /\ Running
    /\ pc_video = "transform"
    /\ pc_video' = "lockwait"
    /\ UNCHANGED << pc_main, pc_call, lock, output_frame, heap, frame, copied,
                    image_object, returned, launched, camera, camera_stops,
                    captured, signal, process, published, sigint_in_loop,
                    read_hist >>

\* A mutation of the transform failure: the slot is emptied on the way out.
VideoTransformFailClearsSlot ==
    /\ Running
    /\ pc_video = "transform"
    /\ VideoExcept("TransformError")
    /\ output_frame' = None
    /\ UNCHANGED << pc_main, pc_call, heap, frame, copied,
                    image_object, returned, launched, captured, signal,
                    process, published, sigint_in_loop,
                    read_hist >>

\* background_subtract.apply(frame) raises.
VideoTransformFail ==
    /\ Running
    /\ pc_video = "transform"
    /\ VideoExcept("TransformError")
    /\ UNCHANGED << pc_main, pc_call, output_frame, heap, frame, copied,
                    image_object, returned, launched, captured, signal,
                    process, published, sigint_in_loop,
                    read_hist >>

\* with lock: (entry)
VideoAcquire ==
    /\ Running
    /\ pc_video = "lockwait"
    /\ CanAcquire(lock)
    /\ lock' = TRUE
    /\ pc_video' = "copy"
    /\ UNCHANGED << pc_main, pc_call, output_frame, heap, frame, copied,
                    image_object, returned, launched, camera, camera_stops,
                    captured, signal, process, published, sigint_in_loop,
                    read_hist >>

\* A mutation of the copy: the frame is copied into the array that the slot
\* already holds, when it holds one, instead of into a new array.
VideoCopyInPlace ==
    /\ Running
    /\ pc_video = "copy"
    /\ IF output_frame = None
          THEN /\ heap' = Append(heap, Copy(heap[frame]))
               /\ copied' = Len(heap) + 1
          ELSE /\ heap' = [heap EXCEPT ![output_frame] = Copy(heap[frame])]
               /\ copied' = output_frame
    /\ pc_video' = "store"
    /\ UNCHANGED << pc_main, pc_call, lock, output_frame, frame, image_object,
                    returned, launched, camera, camera_stops, captured,
                    signal, process, published, sigint_in_loop,
                    read_hist >>

\* frame.copy(): the right-hand side of the assignment, a new array.
VideoCopy ==
    /\ Running
    /\ pc_video = "copy"
    /\ heap' = Append(heap, Copy(heap[frame]))
    /\ copied' = Len(heap) + 1
    /\ pc_video' = "store"
    /\ UNCHANGED << pc_main, pc_call, lock, output_frame, frame, image_object,
                    returned, launched, camera, camera_stops, captured,
                    signal, process, published, sigint_in_loop,
                    read_hist >>

\* A mutation of the publish: a frame already in the slot is kept (first wins).
VideoStoreKeepsFirst ==
    /\ Running
    /\ pc_video = "store"
    /\ output_frame' = IF output_frame = None THEN copied ELSE output_frame
    /\ published' = Append(published, heap[frame])
    /\ unread' = unread + 1
    /\ pc_video' = "release"
    /\ UNCHANGED << pc_main, pc_call, lock, heap, frame, copied, image_object,
                    returned, launched, camera, camera_stops, captured,
                    signal, process, sigint_in_loop,
                    read_pubs, read_skipped >>

\* output_frame = <the copy>: the publish. The history records which captured
\* frame this iteration published.
VideoStore ==
    /\ Running
    /\ pc_video = "store"
    /\ output_frame' = copied
    /\ published' = Append(published, heap[frame])
    /\ unread' = unread + 1
    /\ pc_video' = "release"
    /\ UNCHANGED << pc_main, pc_call, lock, heap, frame, copied, image_object,
                    returned, launched, camera, camera_stops, captured,
                    signal, process, sigint_in_loop,
                    read_pubs, read_skipped >>

\* with lock: (exit), then back to the top of `while (1):`.
VideoRelease ==
    /\ Running
    /\ pc_video = "release"
    /\ lock' = FALSE
    /\ pc_video' = "capture"
    /\ UNCHANGED << pc_main, pc_call, output_frame, heap, frame, copied,
                    image_object, returned, launched, camera, camera_stops,
                    captured, signal, process, published, sigint_in_loop,
                    read_hist >>

\* --------------------------------------------------------- generate_image

\* The web interface calls generate_image: image_object = None.
CallStart(c) ==
    /\ Running
    /\ launched
    /\ pc_call[c] = "idle"
    /\ pc_call' = [pc_call EXCEPT ![c] = "lockwait"]
    /\ image_object' = [image_object EXCEPT ![c] = NoImage]
    /\ read_pubs' = [read_pubs EXCEPT ![c] = 0]
    /\ read_skipped' = [read_skipped EXCEPT ![c] = 0]
    /\ UNCHANGED << pc_main, pc_video, lock, output_frame, heap, frame, copied,
                    returned, launched, camera, camera_stops, captured,
                    signal, process, published, sigint_in_loop, unread >>

\* with lock: (entry)
CallAcquire(c) ==
    /\ Running
    /\ pc_call[c] = "lockwait"
    /\ CanAcquire(lock)
    /\ lock' = TRUE
    /\ pc_call' = [pc_call EXCEPT ![c] = "test"]
    /\ UNCHANGED << pc_main, pc_video, output_frame, heap, frame, copied,
                    image_object, returned, launched, camera, camera_stops,
                    captured, signal, process, published, sigint_in_loop,
                    read_hist >>

\* A mutation of the test: the image is built whatever output_frame is.
SlotTestAlways(slot) == TRUE

\* if output_frame is not None:
SlotTest(slot) == slot # None

\* The test of output_frame.
CallTest(c) ==
    /\ Running
    /\ pc_call[c] = "test"
    /\ pc_call' = [pc_call EXCEPT ![c] = IF SlotTest(output_frame) THEN "image" ELSE "release"]
    /\ read_pubs' = [read_pubs EXCEPT ![c] = Len(published)]
    /\ read_skipped' = [read_skipped EXCEPT ![c] = unread]
    /\ unread' = 0
    /\ UNCHANGED << pc_main, pc_video, lock, output_frame, heap, frame, copied,
                    image_object, returned, launched, camera, camera_stops,
                    captured, signal, process, published, sigint_in_loop >>

\* A mutation of the read: the frame is taken out of the slot.
CallImageConsumes(c) ==
    /\ Running
    /\ pc_call[c] = "image"
    /\ image_object' = [image_object EXCEPT ![c] = GrImage(output_frame)]
    /\ output_frame' = None
    /\ pc_call' = [pc_call EXCEPT ![c] = "release"]
    /\ UNCHANGED << pc_main, pc_video, lock, heap, frame, copied,
                    returned, launched, camera, camera_stops, captured,
                    signal, process, published, sigint_in_loop,
                    read_hist >>

\* image_object = gr.Image(value=output_frame, ...): the image refers to the
\* array that output_frame refers to at this moment.
CallImage(c) ==
    /\ Running
    /\ pc_call[c] = "image"
    /\ image_object' = [image_object EXCEPT ![c] = GrImage(output_frame)]
    /\ pc_call' = [pc_call EXCEPT ![c] = "release"]
    /\ UNCHANGED << pc_main, pc_video, lock, output_frame, heap, frame, copied,
                    returned, launched, camera, camera_stops, captured,
                    signal, process, published, sigint_in_loop,
                    read_hist >>

\* A mutation of the exit of `with lock:`: the lock stays locked.
CallReleaseKeepsLock(c) ==
    /\ Running
    /\ pc_call[c] = "release"
    /\ lock' = lock
    /\ pc_call' = [pc_call EXCEPT ![c] = "return"]
    /\ UNCHANGED << pc_main, pc_video, output_frame, heap, frame, copied,
                    image_object, returned, launched, camera, camera_stops,
                    captured, signal, process, published, sigint_in_loop,
                    read_hist >>

\* A mutation of generate_image: with the `while (1):` of line 39 in force, a
\* call that found the slot empty tries again instead of returning.
CallReleaseRetries(c) ==
    /\ Running
    /\ pc_call[c] = "release"
    /\ lock' = FALSE
    /\ pc_call' = [pc_call EXCEPT ![c] = IF image_object[c] = NoImage
                                           THEN "lockwait" ELSE "return"]
    /\ UNCHANGED << pc_main, pc_video, output_frame, heap, frame, copied,
                    image_object, returned, launched, camera, camera_stops,
                    captured, signal, process, published, sigint_in_loop,
                    read_hist >>

\* with lock: (exit)
CallRelease(c) ==
    /\ Running
    /\ pc_call[c] = "release"
    /\ lock' = FALSE
    /\ pc_call' = [pc_call EXCEPT ![c] = "return"]
    /\ UNCHANGED << pc_main, pc_video, output_frame, heap, frame, copied,
                    image_object, returned, launched, camera, camera_stops,
                    captured, signal, process, published, sigint_in_loop,
                    read_hist >>

\* return image_object
CallReturn(c) ==
    /\ Running
    /\ pc_call[c] = "return"
    /\ returned' = returned \cup {c}
    /\ pc_call' = [pc_call EXCEPT ![c] = "idle"]
    /\ UNCHANGED << pc_main, pc_video, lock, output_frame, heap, frame, copied,
                    image_object, launched, camera, camera_stops, captured,
                    signal, process, published, sigint_in_loop,
                    read_hist >>

\* ------------------------------------------------- the interrupt signal

\* The process-wide interrupt signal (SIGINT) arrives.
Sigint ==
    /\ Running
    /\ signal = "none"
    /\ signal' = "pending"
    /\ sigint_in_loop' = InTry
    /\ UNCHANGED << pc_main, pc_video, pc_call, lock, output_frame, heap, frame,
                    copied, image_object, returned, launched, camera,
                    camera_stops, captured, process, published,
                    read_hist >>

\* Python raises KeyboardInterrupt in SignalThread. In the main thread it ends
\* the __main__ block (sleep(1) does not catch it; launch() returns on it), the
\* interpreter exits and the daemon thread video_thread is abandoned where it
\* is. In video_processing it would reach `except KeyboardInterrupt`.
RaiseKeyboardInterrupt ==
    /\ Running
    /\ signal = "pending"
    /\ signal' = "raised"
    /\ IF SignalThread = "main"
          THEN /\ process' = "exited"
               /\ UNCHANGED << pc_video, lock, camera, camera_stops >>
          ELSE /\ UNCHANGED process
               /\ IF InTry
                     THEN VideoExcept("KeyboardInterrupt")
                     ELSE /\ pc_video' = IF pc_video = "open" THEN "crashed" ELSE pc_video
                          /\ UNCHANGED << lock, camera, camera_stops >>
    /\ UNCHANGED << pc_main, pc_call, output_frame, heap, frame, copied,
                    image_object, returned, launched, captured,
                    published, sigint_in_loop,
                    read_hist >>

\* ------------------------------------------------------ specifications

Next ==
    \/ MainStartThread
    \/ MainSleep
    \/ MainCheckAlive
    \/ MainLaunch
    \/ MainExit
    \/ VideoOpen
    \/ VideoOpenFail
    \/ VideoCapture
    \/ VideoCaptureFail
    \/ VideoTransform
    \/ VideoTransformFail
    \/ VideoAcquire
    \/ VideoCopy
    \/ VideoStore
    \/ VideoRelease
    \/ \E c \in Callers : CallStart(c)
    \/ \E c \in Callers : CallAcquire(c)
    \/ \E c \in Callers : CallTest(c)
    \/ \E c \in Callers : CallImage(c)
    \/ \E c \in Callers : CallRelease(c)
    \/ \E c \in Callers : CallReturn(c)
    \/ Sigint
    \/ RaiseKeyboardInterrupt

Spec == Init /\ [][Next]_vars

\* The steps of the capture loop inside `with lock:`.
VideoSection == VideoCopy \/ VideoStore \/ VideoRelease

\* The steps of the callers inside `with lock:`.
CallSection == \E c \in Callers : CallTest(c) \/ CallImage(c) \/ CallRelease(c)

\* Fair scheduling: a thread inside `with lock:` keeps running until it has
\* left it, and the capture thread, waiting for the lock, gets it if the lock
\* is free again and again. The arrival of the requests and of the signal is
\* left to the environment.
FairSpec ==
    /\ Spec
    /\ SF_vars(VideoAcquire)
    /\ WF_vars(VideoSection)
    /\ WF_vars(CallSection)

\* The steps of caller c from the entry of `with lock:` to the return.
CallStep(c) ==
    CallAcquire(c) \/ CallTest(c) \/ CallImage(c) \/ CallRelease(c) \/ CallReturn(c)

\* One of the callers: Init and Next treat all of them alike.
OneCaller == CHOOSE c \in Callers : TRUE

\* Fair scheduling as seen by one caller: if it can take a step again and
\* again it takes it (so it gets the lock if the lock is free again and
\* again), and a thread inside `with lock:`, another caller or the capture
\* thread, keeps running until it has left it. Nothing makes the camera
\* deliver a frame or the capture loop go on.
CallFairSpec ==
    /\ Spec
    /\ SF_vars(CallStep(OneCaller))
    /\ WF_vars(CallSection)
    /\ WF_vars(VideoSection)

\* ------------------------------------------------------------ the claims

\* Caller c's last call has returned and c has not called again: image_object
\* is the value it returned, read_pubs and read_skipped describe its read.
Completed(c) == c \in returned /\ pc_call[c] = "idle"

\* What caller c's call returns: image_object, once the call has left the
\* test and the construction of the image and until c calls again.
Outcomes(c) ==
    IF pc_call[c] \in {"release", "return"} \/ Completed(c)
        THEN {image_object[c]}
        ELSE {}

\* The contents of the first n frames published.
PublishedBefore(n) == {published[i] : i \in 1 .. n}

\* C1 No torn reads: under every interleaving, a generate_image call returns
\* either no image or an image whose content is that of one captured frame
\* whose publish had completed before the call read the slot.
C1_NoTornReads ==
    \A c \in Callers : \A o \in Outcomes(c) :
        \/ o = NoImage
        \/ /\ o.image
           /\ o.value \in DOMAIN heap
           /\ heap[o.value] \in PublishedBefore(read_pubs[c])

\* A call has returned frame 1 while the capture loop is publishing frame 2.
C1_Witness ==
    \E c \in Callers :
        /\ Completed(c)
        /\ image_object[c].image
        /\ heap[image_object[c].value] = CapturedFrame(1)
        /\ pc_video = "store"
        /\ captured = 2

\* The callers inside the read section (test and read of output_frame).
InReadSection == {c \in Callers : CallInWith(c)}

\* C2 Mutual exclusion: the publish section of the capture loop and the read
\* sections of the callers are never active together, no two read sections
\* are active together, and the lock is locked whenever a section is active.
C2_MutualExclusion ==
    /\ Cardinality(InReadSection) + (IF VideoInWith THEN 1 ELSE 0) <= 1
    /\ (VideoInWith \/ InReadSection # {}) => lock

\* The capture loop is in its publish section, about to assign output_frame,
\* while a caller waits for the lock.
C2_Witness ==
    /\ pc_video = "store"
    /\ \E c \in Callers : pc_call[c] = "lockwait"

\* C3 Empty-before-first-publish: a call that reads the slot before the first
\* publish has completed returns None, never an image.
C3_EmptyBeforeFirstPublish ==
    \A c \in Callers : \A o \in Outcomes(c) :
        read_pubs[c] = 0 => o = NoImage

\* A call that read the slot before the first publish has returned, and the
\* capture loop has since published.
C3_Witness ==
    \E c \in Callers :
        /\ Completed(c)
        /\ read_pubs[c] = 0
        /\ pc_call[c] = "idle"
        /\ Len(published) >= 1

\* C4 Latest-wins: a call that reads the slot after two or more publishes that
\* no read separated returns the content of the last of them; and whatever
\* image a call returns has the content of the last publish completed before
\* its read, so an earlier frame is not kept for a later call.
C4_LatestWins ==
    \A c \in Callers : \A o \in Outcomes(c) :
        /\ read_skipped[c] >= 2 =>
              o.image /\ heap[o.value] = published[read_pubs[c]]
        /\ o.image => read_pubs[c] >= 1 /\ heap[o.value] = published[read_pubs[c]]

\* Frames 1 and 2 were published with no read in between, and the next call
\* has returned frame 2.
C4_Witness ==
    \E c \in Callers :
        /\ Completed(c)
        /\ pc_call[c] = "idle"
        /\ read_skipped[c] = 2
        /\ read_pubs[c] = 2
        /\ heap[image_object[c].value] = CapturedFrame(2)

\* C5 Read does not block write: there is no state in which the capture loop
\* waits to publish while a generate_image call holds the lock on the slot.
C5_ReadDoesNotBlockWrite ==
    ~ (pc_video = "lockwait" /\ \E c \in Callers : CallInWith(c))

C7_StartupGating ==
    pc_video = "open_failed" =>
        /\ Supervisor # "Ready"
        /\ ~launched
        /\ returned = {}
        /\ \A c \in Callers : pc_call[c] = "idle"

\* The capture thread is started and has not terminated.
ThreadAlive == pc_video \in LoopPcs \cup {"open"}

\* C8 The supervisor becomes Ready only from Launching, with the capture
\* thread started, the grace interval over and the thread alive at that check;
\* it becomes Failed only at that check, with the thread not alive; the check
\* always decides; and the web interface is launched only when Ready.
C8_LaunchingToReady ==
    [][ /\ (Supervisor # "Ready" /\ Supervisor' = "Ready") =>
              /\ Supervisor = "Launching"
              /\ pc_main = "check"
              /\ pc_video # "notstarted"
              /\ ThreadAlive
        /\ (Supervisor # "Failed" /\ Supervisor' = "Failed") =>
              /\ Supervisor = "Launching"
              /\ pc_main = "check"
              /\ ~ThreadAlive
        /\ (pc_main = "sleep" /\ pc_main' # "sleep") => pc_main' = "check"
        /\ (~launched /\ launched') => Supervisor = "Ready"
      ]_vars

\* The supervisor is Ready, the web interface is launched and the capture
\* thread, alive at the check, has since terminated.
C8_Witness ==
    /\ pc_main = "serving"
    /\ launched
    /\ pc_video = "crashed"

\* No generate_image call is being served or has been served.
NoCallServed == returned = {} /\ \A c \in Callers : pc_call[c] = "idle"

\* C9 The query service is reachable only in Ready: while the supervisor is
\* NotStarted, Launching or Failed no generate_image call is or has been
\* served; and the supervisor never leaves Ready or Failed.
C9_ReachableOnlyInReady ==
    /\ [](Supervisor \in {"NotStarted", "Launching", "Failed"} => NoCallServed)
    /\ [][(Supervisor \in {"Ready", "Failed"}) => (Supervisor' = Supervisor)]_vars

\* The supervisor has ended in Failed and the process has exited.
C9_Witness ==
    /\ Supervisor = "Failed"
    /\ process = "exited"
    /\ pc_video = "open_failed"

\* C10 Graceful shutdown: once the interrupt signal that arrived while the
\* capture loop was running has been delivered, camera.stop() has been invoked
\* exactly once and the capture loop has terminated through its handler.
C10_GracefulShutdown ==
    (sigint_in_loop /\ signal = "raised") =>
        /\ camera_stops = 1
        /\ camera = "stopped"
        /\ pc_video = "interrupted"

\* C11 A capture failure or a transform failure does not terminate the capture
\* loop: whatever happens at the capture step or at the transform step, the
\* capture thread is still inside `while (1):` afterwards.
C11_FailureSkipsIteration ==
    [][(pc_video \in {"capture", "transform"}) => (pc_video' \in LoopPcs)]_vars

\* Two returned values have the same content: both None, or both images of
\* arrays with equal elements.
SameContent(o1, o2) ==
    /\ o1.image = o2.image
    /\ o1.image => heap[o1.value] = heap[o2.value]

\* C12 Idempotent query: two calls between whose reads no publish completed
\* return identical content (or both None), and no step of a generate_image
\* call changes the slot or the content of an array.
C12_IdempotentQuery ==
    /\ [](\A c, d \in Callers : \A o1 \in Outcomes(c) : \A o2 \in Outcomes(d) :
             read_pubs[c] = read_pubs[d] => SameContent(o1, o2))
    /\ [][(pc_call' # pc_call) => (output_frame' = output_frame /\ heap' = heap)]_vars

\* Two calls have read the slot after the first publish and before the second,
\* and both have returned an image.
C12_Witness ==
    \E c, d \in Callers :
        /\ c # d
        /\ Completed(c) /\ Completed(d)
        /\ read_pubs[c] = 1 /\ read_pubs[d] = 1
        /\ image_object[c].image /\ image_object[d].image
        /\ output_frame = image_object[c].value

\* C13 Isolation of the data handed to a caller: as long as a caller holds the
\* image its call built, the content of the array the image refers to does
\* not change, whatever the capture loop publishes meanwhile.
C13_ReturnedDataIsolated ==
    [][\A c \in Callers :
          (image_object[c].image /\ image_object'[c] = image_object[c]) =>
              heap'[image_object[c].value] = heap[image_object[c].value]]_vars

\* A caller holds the image of frame 1 that its call returned, and the capture
\* loop has since published frame 2 into another array.
C13_Witness ==
    \E c \in Callers :
        /\ Completed(c)
        /\ image_object[c].image
        /\ heap[image_object[c].value] = CapturedFrame(1)
        /\ Len(published) = 2
        /\ output_frame # image_object[c].value
        /\ heap[output_frame] = CapturedFrame(2)

SlotHoldsLastPublished ==
    IF published = << >>
        THEN output_frame = None
        ELSE output_frame # None /\ heap[output_frame] = published[Len(published)]

\* The returned value o is what the last completed publish put in the slot.
IsLastPublished(o) ==
    IF published = << >>
        THEN o = NoImage
        ELSE o.image /\ heap[o.value] = published[Len(published)]

\* C15 A frame whose transform fails is not published: the failure changes
\* neither the slot nor any array, the slot then holds the previously
\* published frame (or nothing), and the calls that read it after the last
\* publish return that content.
C15_TransformFailureKeepsSlot ==
    /\ [][(pc_video = "transform" /\ pc_video' = "crashed") =>
             (output_frame' = output_frame /\ heap' = heap /\ published' = published)]_vars
    /\ []((pc_video = "crashed" /\ captured > Len(published)) =>
             /\ SlotHoldsLastPublished
             /\ \A c \in Callers : \A o \in Outcomes(c) :
                   read_pubs[c] = Len(published) => IsLastPublished(o))

\* The transform of frame 2 has failed, frame 1 is still in the slot and a call
\* has returned it.
C15_Witness ==
    /\ pc_video = "crashed"
    /\ captured = 2
    /\ Len(published) = 1
    /\ heap[output_frame] = CapturedFrame(1)
    /\ \E c \in Callers :
          /\ Completed(c)
          /\ image_object[c] = GrImage(output_frame)

\* C16 If opening or configuring the camera fails, the capture loop never
\* starts: the thread stays terminated (the open is not tried again), no frame
\* has been captured or published, the camera was never started and the slot
\* is empty.
C16_FailedOpenNeverStartsLoop ==
    /\ [](pc_video = "open_failed" =>
             /\ captured = 0
             /\ published = << >>
             /\ output_frame = None
             /\ camera = "closed")
    /\ [][(pc_video = "open_failed") => (pc_video' = "open_failed")]_vars

\* The open has failed after the liveness check; the web interface is served
\* and a call has returned from the empty slot.
C16_Witness ==
    /\ pc_video = "open_failed"
    /\ pc_main = "serving"
    /\ \E c \in Callers : Completed(c) /\ image_object[c] = NoImage

\* video_processing has terminated: its thread is dead.
VideoTerminated == pc_video \in {"open_failed", "crashed", "interrupted"}

\* C17 Stale-forever after loop death: once the capture loop has terminated it
\* stays terminated and neither the slot nor any array changes again; the slot
\* holds the last frame published before the termination (or nothing), and
\* that is what the calls that read it after the last publish return.
C17_StaleForeverAfterDeath ==
    /\ [][VideoTerminated =>
             /\ VideoTerminated'
             /\ output_frame' = output_frame
             /\ heap' = heap
             /\ published' = published]_vars
    /\ [](VideoTerminated =>
             /\ SlotHoldsLastPublished
             /\ \A c \in Callers : \A o \in Outcomes(c) :
                   read_pubs[c] = Len(published) => IsLastPublished(o))

\* The capture loop has died after publishing frame 2; one call has returned
\* frame 2 and another call is reading the slot.
C17_Witness ==
    /\ pc_video = "crashed"
    /\ Len(published) = 2
    /\ \E c, d \in Callers :
          /\ Completed(c)
          /\ image_object[c].image
          /\ heap[image_object[c].value] = CapturedFrame(2)
          /\ pc_call[d] = "image"

\* C18 The slot never reverts to empty: once a publish has completed the slot
\* is not None, in that state and in every later one, and a call returns None
\* only if no publish had completed when it read the slot.
C18_SlotNeverRevertsToEmpty ==
    /\ Len(published) >= 1 => output_frame # None
    /\ \A c \in Callers : \A o \in Outcomes(c) :
          o = NoImage => read_pubs[c] = 0

\* One call has returned None before the first publish and another call has
\* returned an image after it.
C18_Witness ==
    \E c, d \in Callers :
        /\ Completed(c) /\ image_object[c] = NoImage
        /\ Completed(d) /\ image_object[d].image
        /\ output_frame # None

\* The sequence number of the frame in a returned value, 0 for None.
SeqOf(o) == IF o.image THEN heap[o.value][1] ELSE 0

\* C19 Observed freshness is monotonic: when a call reads the slot, what it
\* gets is at least as new as what any other call has already returned; so a
\* call that starts after another has returned never returns an older frame.
C19_FreshnessMonotonic ==
    [][\A d \in Callers :
          (pc_call[d] \in {"test", "image"} /\ pc_call'[d] = "release") =>
              \A c \in Callers \ {d} :
                  Completed(c) => SeqOf(image_object'[d]) >= SeqOf(image_object[c])]_vars

\* A call has returned frame 1 and stays returned; another call has since read
\* frame 2.
C19_Witness ==
    \E c, d \in Callers :
        /\ c # d
        /\ Completed(c) /\ SeqOf(image_object[c]) = 1
        /\ pc_call[d] = "release" /\ SeqOf(image_object[d]) = 2

\* C20 The lock is never leaked: it is locked only while some thread is inside
\* its `with lock:` block, so not by a capture loop that has terminated nor by
\* a call that has returned; and whenever it is locked the thread inside the
\* block can take its next step, so no thread waits for the lock forever.
C20_LockNeverLeaked ==
    /\ lock => (VideoInWith \/ InReadSection # {})
    /\ (lock /\ Running) => ENABLED (VideoSection \/ CallSection)

\* The capture loop has terminated, a call has returned, and another call has
\* got the lock after them.
C20_Witness ==
    /\ VideoTerminated
    /\ \E c, d \in Callers :
          /\ Completed(c)
          /\ pc_call[d] = "test"
          /\ lock

====
